---- MODULE Spec2Model ----
(***************************************************************************)
(* Model of the indicator / forecast / signal pipeline of the stock        *)
(* analysis demo: utils.is_sideways_trend, predictor.py and                *)
(* forecast_service.py, with the parts of indicators.py they read.         *)
(*                                                                         *)
(* Python floats are modelled as exact rationals [n, d] (d > 0), with the  *)
(* two undefined values of the code kept apart: NaN (a float) and None.    *)
(* Prices are rationals; closes of the input series are whole cents.       *)
(* round(x, 2) is rounding of the exact rational to hundredths, ties to    *)
(* even.                                                                   *)
(***************************************************************************)
EXTENDS Integers, Sequences, FiniteSets, TLC

VARIABLES
    call,      \* the operation invoked and its arguments
    result,    \* what the operation returned (or the exception it raised)
    pc,        \* "ready": not yet applied; "done": result holds the outcome
    log_file,  \* reports/YYYY-MM-DD.json of the day: absent, JSON or unreadable
    loggers,   \* each caller of append_daily_log: its position and its locals
    returned   \* what the calls of append_daily_log returned, in return order

logs == <<log_file, loggers, returned>>

vars == <<call, result, pc, log_file, loggers, returned>>

----------------------------------------------------------------------------
(* Numbers *)

FNum(n, d) == [k |-> "num", n |-> n, d |-> d]
NaN == [k |-> "nan", n |-> 0, d |-> 1]
None == [k |-> "none", n |-> 0, d |-> 1]

IsNum(x) == x.k = "num"

\* pd.isna / np.isnan-or-None tests of the code
IsNa(x) == x.k # "num"

\* Python's < on two floats: any comparison with NaN is False
Lt(a, b) == IsNum(a) /\ IsNum(b) /\ a.n * b.d < b.n * a.d
Le(a, b) == IsNum(a) /\ IsNum(b) /\ a.n * b.d <= b.n * a.d
Gt(a, b) == Lt(b, a)
Ge(a, b) == Le(b, a)
NumEq(a, b) == IsNum(a) /\ IsNum(b) /\ a.n * b.d = b.n * a.d

Int2F(i) == FNum(i, 1)

\* n/d rounded to the nearest integer, ties to even (d > 0; \div floors)
RoundHalfEven(n, d) ==
    LET q == n \div d
        r == n % d
    IN  IF 2 * r < d THEN q
        ELSE IF 2 * r > d THEN q + 1
        ELSE IF q % 2 = 0 THEN q ELSE q + 1

\* round(x, 2); NaN stays NaN
Round2(x) ==
    IF ~IsNum(x) THEN x
    ELSE FNum(100 * (x.n \div x.d) + RoundHalfEven(100 * (x.n % x.d), x.d), 100)

\* max(x, 0) of a number
Max0(x) == IF Lt(x, Int2F(0)) THEN Int2F(0) ELSE x

Abs(i) == IF i < 0 THEN 0 - i ELSE i

----------------------------------------------------------------------------
(* utils.is_sideways_trend and predictor._determine_trend *)

\* threshold = 0.02 = SidewaysPct / 100
SidewaysPct == 2

\* abs(forecast - current) / current <= threshold, for current > 0:
\* |fn/fd - cn/cd| / (cn/cd) = |fn*cd - cn*fd| / (cn*fd)
is_sideways_trend_lt(current_price, forecast_price) ==
    LET diff == Abs(forecast_price.n * current_price.d
                    - current_price.n * forecast_price.d)
    IN  100 * diff < SidewaysPct * current_price.n * forecast_price.d

is_sideways_trend(current_price, forecast_price) ==
    LET diff == Abs(forecast_price.n * current_price.d
                    - current_price.n * forecast_price.d)
    IN  100 * diff <= SidewaysPct * current_price.n * forecast_price.d

_determine_trend(current_price, forecast_price) ==
    IF is_sideways_trend(current_price, forecast_price) THEN "Sideways"
    ELSE IF Gt(forecast_price, current_price) THEN "Uptrend"
    ELSE "Downtrend"

----------------------------------------------------------------------------
(* predictor._generate_trading_signal *)

Trends == {"Uptrend", "Downtrend", "Sideways"}
Signals == {"BUY", "SELL", "HOLD"}

\* RSI14 default when the column is absent (predictor.py:175,
\* forecast_service.py:106)
DefaultRsi == 50
RsiOverbought == 70
RsiOversold == 30

\* An outcome of a function that may raise
Raise(e) == [exc |-> e, signal |-> "", reason |-> ""]
Sig(s, r) == [exc |-> "", signal |-> s, reason |-> r]

\* predictor.py:180-187
SignalUptrend(latest_rsi, latest_sma7, latest_sma30) ==
    IF Lt(latest_rsi, Int2F(RsiOverbought)) THEN
        IF Gt(latest_sma7, latest_sma30)
        THEN Sig("BUY", "Xu huong tang, RSI chua qua mua, SMA7 > SMA30")
        ELSE Sig("HOLD", "Xu huong tang nhung can cho SMA7 vuot SMA30")
    ELSE Sig("HOLD", "Xu huong tang nhung RSI da qua mua")

\* predictor.py:189-196
SignalDowntrend(latest_rsi, latest_sma7, latest_sma30) ==
    IF Gt(latest_rsi, Int2F(RsiOversold)) THEN
        IF Lt(latest_sma7, latest_sma30)
        THEN Sig("SELL", "Xu huong giam, RSI chua qua ban, SMA7 < SMA30")
        ELSE Sig("HOLD", "Xu huong giam nhung can cho SMA7 xuong duoi SMA30")
    ELSE Sig("HOLD", "Xu huong giam nhung RSI da qua ban, co the phuc hoi")

SignalSideways_le(latest_rsi) ==
    IF Le(latest_rsi, Int2F(RsiOversold))
    THEN Sig("BUY", "Thi truong sideways, RSI qua ban, co hoi mua")
    ELSE IF Gt(latest_rsi, Int2F(RsiOverbought))
    THEN Sig("SELL", "Thi truong sideways, RSI qua mua, nen ban")
    ELSE Sig("HOLD", "Thi truong sideways, RSI trung tinh, cho tin hieu ro rang")

\* predictor.py:198-204
SignalSideways(latest_rsi) ==
    IF Lt(latest_rsi, Int2F(RsiOversold))
    THEN Sig("BUY", "Thi truong sideways, RSI qua ban, co hoi mua")
    ELSE IF Gt(latest_rsi, Int2F(RsiOverbought))
    THEN Sig("SELL", "Thi truong sideways, RSI qua mua, nen ban")
    ELSE Sig("HOLD", "Thi truong sideways, RSI trung tinh, cho tin hieu ro rang")

\* row: the last row of df (df.iloc[-1]); cols: the indicator columns df has.
\* Every branch first compares latest_rsi with a number: `None < 70` raises
\* TypeError, and a comparison with NaN is False.
_generate_trading_signal(row, cols, trend) ==
    LET latest_rsi == IF "RSI14" \in cols THEN row.RSI14 ELSE Int2F(DefaultRsi)
        latest_sma7 == IF "SMA7" \in cols THEN row.SMA7 ELSE row.Close
        latest_sma30 == IF "SMA30" \in cols THEN row.SMA30 ELSE row.Close
    IN  IF latest_rsi.k = "none" THEN Raise("TypeError")
        ELSE IF trend = "Uptrend"
        THEN SignalUptrend(latest_rsi, latest_sma7, latest_sma30)
        ELSE IF trend = "Downtrend"
        THEN SignalDowntrend(latest_rsi, latest_sma7, latest_sma30)
        ELSE SignalSideways(latest_rsi)

----------------------------------------------------------------------------
(* forecast_service._derive_trend_and_signal *)

Derived(t, s, r) == [exc |-> "", trend |-> t, signal |-> s, reason |-> r]

\* rsi may be None or NaN: both become 50.0 (line 106)
_derive_trend_and_signal(current_price, forecast_price, rsi0, sma7, sma30) ==
    LET trend == IF is_sideways_trend(current_price, forecast_price) THEN "Sideways"
                 ELSE IF Gt(forecast_price, current_price) THEN "Uptrend"
                 ELSE "Downtrend"
        rsi == IF IsNa(rsi0) THEN Int2F(DefaultRsi) ELSE rsi0
    IN  IF trend = "Uptrend" THEN
            IF Lt(rsi, Int2F(RsiOverbought)) /\ Ge(sma7, sma30)
            THEN Derived(trend, "BUY", "Xu huong tang, RSI chua qua mua, SMA7 >= SMA30")
            ELSE Derived(trend, "HOLD", "Xu huong tang nhung dieu kien chi bao chua dong thuan")
        ELSE IF trend = "Downtrend" THEN
            IF Gt(rsi, Int2F(RsiOversold)) /\ Le(sma7, sma30)
            THEN Derived(trend, "SELL", "Xu huong giam, RSI chua qua ban, SMA7 <= SMA30")
            ELSE Derived(trend, "HOLD", "Xu huong giam nhung dieu kien chi bao chua dong thuan")
        ELSE
            IF Lt(rsi, Int2F(RsiOversold))
            THEN Derived(trend, "BUY", "Sideways, RSI qua ban")
            ELSE IF Gt(rsi, Int2F(RsiOverbought))
            THEN Derived(trend, "SELL", "Sideways, RSI qua mua")
            ELSE Derived(trend, "HOLD", "Sideways, RSI trung tinh")

----------------------------------------------------------------------------
(* The price series and indicators.py *)

\* A DataFrame is [Close |-> sequence of closes in whole cents,
\*                 cols  |-> the indicator columns it has].
\* The indicator columns are functions of Close, computed as add_indicators
\* computes them.

Price(c) == FNum(c, 100)

RECURSIVE SumRange(_, _, _)
SumRange(close, lo, hi) ==
    IF lo > hi THEN 0 ELSE close[hi] + SumRange(close, lo, hi - 1)

RECURSIVE Pow(_, _)
Pow(b, e) == IF e = 0 THEN 1 ELSE b * Pow(b, e - 1)

MaxI(a, b) == IF a >= b THEN a ELSE b
MinI(a, b) == IF a <= b THEN a ELSE b

ShortWindow == 7
LongWindow == 30

RollingMean_expanding(close, window, i) ==
    FNum(SumRange(close, 1, i), 100 * i)

\* rolling(window, min_periods=1).mean() at row i (1-based)
RollingMean(close, window, i) ==
    LET lo == MaxI(1, i - window + 1)
    IN  FNum(SumRange(close, lo, i), 100 * (i - lo + 1))

RsiPeriod == 14

\* delta = Close.diff(): undefined (NaN) at the first row
Gain(close, j) == IF j >= 2 /\ close[j] > close[j - 1] THEN close[j] - close[j - 1] ELSE 0
Loss(close, j) == IF j >= 2 /\ close[j] < close[j - 1] THEN close[j - 1] - close[j] ELSE 0

\* The first row whose delta is not zero (0 when there is none up to row i)
FirstMove(close, i) ==
    LET moves == {j \in 2..i : close[j] # close[j - 1]}
    IN  IF moves = {} THEN 0 ELSE CHOOSE j \in moves : \A m \in moves : j <= m

\* ewm(span=period, adjust=False).mean() at row i: y[1] = x[1] = 0,
\* y[t] = (1 - a) * y[t-1] + a * x[t] with a = 2 / (period + 1), hence
\* y[i] = SUM_j a * (1 - a)^(i - j) * x[j].  With 1 - a = (period - 1) / (period + 1)
\* the sum is EwmNum * 2 * (period + 1)^(j0 - 2) / (period + 1)^(i - 1), where j0 is
\* the first row with a move; avg_gain (up) and avg_loss share that factor.
RECURSIVE EwmNum(_, _, _, _, _)
EwmNum(up, close, j0, j, i) ==
    IF j > i THEN 0
    ELSE Pow(RsiPeriod - 1, i - j) * Pow(RsiPeriod + 1, j - j0)
             * (IF up THEN Gain(close, j) ELSE Loss(close, j))
         + EwmNum(up, close, j0, j + 1, i)

\* rsi = 100 - 100 / (1 + avg_gain / avg_loss), in float arithmetic:
\* 0/0 is NaN, x/0 is inf and 100 - 100/inf = 100.
RsiValue(avg_gain, avg_loss) ==
    IF avg_loss = 0 THEN (IF avg_gain = 0 THEN NaN ELSE Int2F(100))
    ELSE FNum(100 * avg_gain, avg_gain + avg_loss)

RsiFrom(close, i, j0) ==
    IF j0 = 0 THEN RsiValue(0, 0)
    ELSE RsiValue(EwmNum(TRUE, close, j0, j0, i), EwmNum(FALSE, close, j0, j0, i))

RsiAt(close, i) == RsiFrom(close, i, FirstMove(close, i))

RSI14_always(close, i) == RsiAt(close, i)

\* add_rsi: the whole column is None when len(df) < period + 1
RSI14(close, i) ==
    IF Len(close) < RsiPeriod + 1 THEN None ELSE RsiAt(close, i)

IndicatorCols == {"SMA7", "SMA30", "RSI14"}

\* add_indicators(df): a copy of df with the three columns (raises on empty)
add_indicators(df) == [Close |-> df.Close, cols |-> IndicatorCols]

\* df.iloc[i] of the columns the pipeline reads
RowAt(df, i) ==
    [Close |-> Price(df.Close[i]),
     SMA7 |-> RollingMean(df.Close, ShortWindow, i),
     SMA30 |-> RollingMean(df.Close, LongWindow, i),
     RSI14 |-> RSI14(df.Close, i)]

LastRow(df) == RowAt(df, Len(df.Close))

\* get_latest_indicators: keys present and their rounded values
get_latest_indicators(df) ==
    LET latest == LastRow(df)
    IN  [keys |-> {c \in df.cols : c # "RSI14" \/ latest.RSI14.k # "none"},
         SMA7 |-> Round2(latest.SMA7),
         SMA30 |-> Round2(latest.SMA30),
         RSI14 |-> Round2(latest.RSI14)]

\* add_indicators(df) followed by get_latest_indicators: the three columns
\* row by row and the latest indicator set; add_indicators raises ValueError
\* on an empty frame (lines 121-122)
IndicatorFrame(df) ==
    [exc |-> "", path |-> "",
     SMA7 |-> [i \in 1..Len(df.Close) |-> RowAt(df, i).SMA7],
     SMA30 |-> [i \in 1..Len(df.Close) |-> RowAt(df, i).SMA30],
     RSI14 |-> [i \in 1..Len(df.Close) |-> RowAt(df, i).RSI14],
     latest |-> get_latest_indicators(df)]

AddIndicatorsCall(close) ==
    IF Len(close) = 0 THEN [exc |-> "ValueError", path |-> ""]
    ELSE IndicatorFrame(add_indicators([Close |-> close, cols |-> {}]))

----------------------------------------------------------------------------
(* DataFrame objects: which frame an assignment lands in *)

\* frames is the list of the DataFrame objects alive, a frame being its Close
\* column and the set of its indicator columns; df is the position of the
\* object a function works on.  The caller's frame is object 1.

\* A "copy" that hands back the same object
df_copy_alias(frames, df) == [frames |-> frames, df |-> df]

\* df = df.copy(): a new object of the same content (lines 23, 49)
df_copy(frames, df) == [frames |-> Append(frames, frames[df]), df |-> Len(frames) + 1]

\* df[col] = ... for the columns cols, on the object the local df names
AssignColumns(at, cols) ==
    [frames |-> [at.frames EXCEPT ![at.df].cols = @ \cup cols], df |-> at.df]

add_moving_averages(frames, df) ==
    AssignColumns(df_copy(frames, df), {"SMA7", "SMA30"})

add_rsi(frames, df) == AssignColumns(df_copy(frames, df), {"RSI14"})

\* get_latest_indicators(df) and forecast_price_regression(df, ...), with
\* _prepare_regression_data, _generate_forecast and _generate_trading_signal:
\* they read df['...'].iloc[...] and assign nothing to the frame
ReadFrame(at) == at

\* add_indicators(df), then the two readers on its result, as get_forecast
\* chains them (forecast_service.py:162-163, 197)
IndicatorObjects(frames, df) ==
    IF Len(frames[df].Close) = 0 THEN [frames |-> frames, df |-> df]
    ELSE LET df_with_ma == add_moving_averages(frames, df)
         IN  ReadFrame(ReadFrame(add_rsi(df_with_ma.frames, df_with_ma.df)))

----------------------------------------------------------------------------
(* predictor.py *)

\* forecast_price_regression's guards
MinRows == 10
MinTrainRows == 5
\* _get_simple_prediction: df['Close'].tail(5)
RecentRows == 5
\* daily_change thresholds 0.002 and default 0.001, and the default
\* projection's 0.001 per day, in thousandths
TrendPerMille == 2
DefaultPerMille == 1
\* current_price = 100.0 when there is no data
NoDataPrice == 100

\* A result record.  reason is the list of the pieces the code joins.
Record(path, trend, h, prices, signal, reason) ==
    [exc |-> "", path |-> path, trend |-> trend, forecast_horizon_days |-> h,
     forecast_next_days |-> prices, signal |-> signal, reason |-> reason]

\* _get_default_prediction: range(horizon_days) is empty for horizon_days <= 0
DefaultPrice(current, k) ==
    Round2(FNum(current.n * (1000 + DefaultPerMille * k), current.d * 1000))

_get_default_prediction(horizon_days, reason, df) ==
    LET current_price == IF Len(df.Close) > 0 THEN Price(df.Close[Len(df.Close)])
                         ELSE Int2F(NoDataPrice)
    IN  Record("default", "Sideways", horizon_days,
               [i \in 1..horizon_days |-> DefaultPrice(current_price, i)],
               "HOLD", <<reason>>)

\* daily_change of _get_simple_prediction: over the last min(5, len) closes,
\* (last - first) / first / len when there are at least 2, else 0.001
DailyChange(close) ==
    LET n == MinI(RecentRows, Len(close))
        first == close[Len(close) - n + 1]
        last == close[Len(close)]
    IN  IF n >= 2 THEN FNum(last - first, first * n)
        ELSE FNum(DefaultPerMille, 1000)

\* current_price * (1 + daily_change * k), rounded
SimplePrice(current, dc, k) ==
    Round2(FNum(current.n * (dc.d + dc.n * k), current.d * dc.d))

\* lines 273-293: trend and signal from daily_change alone
SimpleRecord(horizon_days, forecast_prices, daily_change, reason) ==
    IF Gt(daily_change, FNum(TrendPerMille, 1000))
    THEN Record("simple", "Uptrend", horizon_days, forecast_prices, "BUY",
                <<"Xu huong tang dua tren du lieu gan day", ". ", reason>>)
    ELSE IF Lt(daily_change, FNum(0 - TrendPerMille, 1000))
    THEN Record("simple", "Downtrend", horizon_days, forecast_prices, "SELL",
                <<"Xu huong giam dua tren du lieu gan day", ". ", reason>>)
    ELSE Record("simple", "Sideways", horizon_days, forecast_prices, "HOLD",
                <<"Xu huong sideways, bien dong nho", ". ", reason>>)

\* lines 267-271
SimpleForecast(current_price, daily_change, horizon_days) ==
    [i \in 1..horizon_days |-> SimplePrice(current_price, daily_change, i)]

SimpleFrom(current_price, daily_change, horizon_days, reason) ==
    SimpleRecord(horizon_days,
                 SimpleForecast(current_price, daily_change, horizon_days),
                 daily_change, reason)

_get_simple_prediction(df, horizon_days, reason) ==
    IF Len(df.Close) = 0 THEN _get_default_prediction(horizon_days, reason, df)
    ELSE SimpleFrom(Price(df.Close[Len(df.Close)]), DailyChange(df.Close),
                    horizon_days, reason)

\* model.predict([feature_row])[0] for forecast day `day`.  The fitted
\* LinearRegression is a linear function of the feature row; the indicator
\* features are held at their last values, so the prediction is linear in the
\* day index: fit.a + fit.b * day, in thousandths of the price unit.
Predict(fit, day) == FNum(fit.a + fit.b * day, 1000)

_generate_forecast_short(fit, df, horizon_days) ==
    [day \in 1..(horizon_days - 1) |-> Max0(Predict(fit, day))]

\* _generate_forecast: max(predicted_price, 0) for day = 1..horizon_days
_generate_forecast(fit, df, horizon_days) ==
    [day \in 1..horizon_days |-> Max0(Predict(fit, day))]

\* The try block of forecast_price_regression (lines 33-61), statement by
\* statement: the record it returns, or the exception it raises.

\* lines 55-61, or the exception of _generate_trading_signal
TryReturn(horizon_days, forecast_prices, trend, sr) ==
    IF sr.exc # "" THEN [exc |-> sr.exc]
    ELSE Record("regression", trend, horizon_days,
                [i \in 1..Len(forecast_prices) |-> Round2(forecast_prices[i])],
                sr.signal, <<sr.reason>>)

\* line 53
TrySignal(df, horizon_days, forecast_prices, trend) ==
    TryReturn(horizon_days, forecast_prices, trend,
              _generate_trading_signal(LastRow(df), df.cols, trend))

\* lines 47-50; forecast_prices[-1] raises IndexError on an empty list
TryTrend(df, horizon_days, forecast_prices) ==
    IF Len(forecast_prices) = 0 THEN [exc |-> "IndexError"]
    ELSE TrySignal(df, horizon_days, forecast_prices,
                   _determine_trend(Price(df.Close[Len(df.Close)]),
                                    forecast_prices[Len(forecast_prices)]))

\* lines 34-44; len(X) = len(df) - 1
TryRegression(df, horizon_days, fit) ==
    IF Len(df.Close) - 1 < MinTrainRows
    THEN _get_simple_prediction(df, horizon_days,
                                "Du lieu qua it de huan luyen mo hinh")
    ELSE TryTrend(df, horizon_days, _generate_forecast(fit, df, horizon_days))

Propagate(r, df, horizon_days) == r

\* lines 63-64: except Exception as e
Catch(r, df, horizon_days) ==
    IF r.exc # ""
    THEN _get_simple_prediction(df, horizon_days, "Loi du doan: " \o r.exc)
    ELSE r

forecast_price_regression(df, horizon_days, fit) ==
    IF Len(df.Close) < MinRows
    THEN _get_default_prediction(horizon_days, "Du lieu khong du de du doan", df)
    ELSE Catch(TryRegression(df, horizon_days, fit), df, horizon_days)

----------------------------------------------------------------------------
(* forecast_service.py *)

\* parts[:horizon] of a Python list
Take(parts, horizon) ==
    IF horizon >= 0 THEN SubSeq(parts, 1, MinI(horizon, Len(parts)))
    ELSE SubSeq(parts, 1, MaxI(Len(parts) + horizon, 0))

_forecast_with_chronos_unchecked(available, chronos, horizon) ==
    IF ~available THEN [exc |-> "ImportError", preds |-> <<>>]
    ELSE IF chronos.raises THEN [exc |-> "Exception", preds |-> <<>>]
    ELSE [exc |-> "", preds |-> Take(chronos.parts, horizon)]

\* _forecast_with_chronos: ImportError without transformers; any error of the
\* tokenizer or the model propagates; the numbers parsed from the generated
\* text are cut to horizon and must be exactly horizon many.
\* chronos is what the Hugging Face model does: [raises |-> BOOLEAN,
\* parts |-> the numbers in its output].
_forecast_with_chronos(available, chronos, horizon) ==
    IF ~available THEN [exc |-> "ImportError", preds |-> <<>>]
    ELSE IF chronos.raises THEN [exc |-> "Exception", preds |-> <<>>]
    ELSE LET preds == Take(chronos.parts, horizon)
         IN  IF Len(preds) # horizon THEN [exc |-> "RuntimeError", preds |-> <<>>]
             ELSE [exc |-> "", preds |-> preds]

\* get_stock_data, as far as get_forecast depends on it: the rows of the CSV
\* inside the date range, or the error raised when there are none (the
\* ValueError of line 68 is re-raised as RuntimeError by line 84-85).
get_stock_data(rows) ==
    IF Len(rows) = 0 THEN [exc |-> "RuntimeError"]
    ELSE [exc |-> "", Close |-> rows, cols |-> {}]

----------------------------------------------------------------------------
(* forecast_service._compute_bounds_from_volatility *)

\* The closes of the model's price series (whole cents > 0)
CloseValues == {40, 100, 160}
PrefixCloses == {100}

\* lookback = 20
Lookback == 20
\* sigma = 0.02 when it cannot be computed, in percent
FallbackSigmaPct == 2

\* close.pct_change().abs() at row j >= 2, as a multiple of 1 / RetScale;
\* RetScale is the least common multiple of the closes the series are made of
RetScale ==
    CHOOSE m \in 1..1000 :
        /\ \A c \in CloseValues \cup PrefixCloses : m % c = 0
        /\ \A k \in 1..(m - 1) : \E c \in CloseValues \cup PrefixCloses : k % c # 0

AbsRet(close, j) == Abs(close[j] - close[j - 1]) * (RetScale \div close[j - 1])

RECURSIVE SumRet(_, _, _)
SumRet(close, lo, hi) ==
    IF lo > hi THEN 0 ELSE AbsRet(close, hi) + SumRet(close, lo, hi - 1)

RECURSIVE SumRetSq(_, _, _)
SumRetSq(close, lo, hi) ==
    IF lo > hi THEN 0
    ELSE AbsRet(close, hi) * AbsRet(close, hi) + SumRetSq(close, lo, hi - 1)

\* The largest s in lo..hi with s * s <= v
RECURSIVE SqrtIn(_, _, _)
SqrtIn(v, lo, hi) ==
    IF lo >= hi THEN lo
    ELSE LET mid == (lo + hi + 1) \div 2
         IN  IF mid * mid <= v THEN SqrtIn(v, mid, hi) ELSE SqrtIn(v, lo, mid - 1)

\* window.std() (ddof = 1) of the m returns of rows lo..hi, given their sum s1
\* and sum of squares s2: sqrt((m*s2 - s1^2) / (m*(m-1))) / RetScale, the
\* square root truncated to a multiple of 1 / RetScale; 0 exactly when the
\* returns are all equal
StdOf(m, s1, s2) ==
    IF m * s2 - s1 * s1 = 0 THEN Int2F(0)
    ELSE FNum(SqrtIn((m * s2 - s1 * s1) \div (m * (m - 1)), 0, s1), RetScale)

WindowStd(close, lo, hi) ==
    StdOf(hi - lo + 1, SumRet(close, lo, hi), SumRetSq(close, lo, hi))

\* A sigma over every return of the series, whatever the lookback
Sigma_whole(close) ==
    IF Len(close) < 3 THEN FNum(FallbackSigmaPct, 100)
    ELSE LET sd == WindowStd(close, 2, Len(close))
         IN  IF sd.n = 0 THEN FNum(FallbackSigmaPct, 100) ELSE sd

\* lines 79-86: ret has len(close) - 1 entries; with fewer than 2 of them
\* ret.std() is NaN; NaN or 0 is replaced by 0.02
Sigma(close) ==
    IF Len(close) < 3 THEN FNum(FallbackSigmaPct, 100)
    ELSE LET sd == WindowStd(close, MaxI(2, Len(close) - Lookback + 1), Len(close))
         IN  IF sd.n = 0 THEN FNum(FallbackSigmaPct, 100) ELSE sd

\* p * (1 + sign * sigma)
Scaled(p, sigma, sign) == FNum(p.n * (sigma.d + sign * sigma.n), p.d * sigma.d)

\* lines 88-93 (k_sigma = 1.0)
BoundsWith(preds, sigma) ==
    [i \in 1..Len(preds) |->
        [min |-> Round2(Max0(Scaled(preds[i], sigma, 0 - 1))),
         max |-> Round2(Scaled(preds[i], sigma, 1))]]

_compute_bounds_from_volatility(preds, close) == BoundsWith(preds, Sigma(close))

\* model.lower() on the flags the model draws from
Lower(model) ==
    IF model = "Chronos" THEN "chronos"
    ELSE IF model = "AUTO" THEN "auto"
    ELSE model

\* chosen (lines 167-169)
Chosen(model) ==
    IF Lower(model) \in {"linear", "chronos", "auto"} THEN Lower(model) ELSE "linear"

\* line 178: whether _forecast_with_chronos is called
TriesChronos(model, available) ==
    Chosen(model) = "chronos" \/ (Chosen(model) = "auto" /\ available)

\* Whether forecast_price_regression is called (lines 196, 203): the flag is
\* linear, or the Chronos attempt left preds empty
UsesLinear(model, available, chronos, horizon_days) ==
    \/ ~TriesChronos(model, available)
    \/ LET c == _forecast_with_chronos(available, chronos, horizon_days)
       IN  c.exc # "" \/ Len(c.preds) = 0

\* preds, trend, signal, reason as initialised by lines 171-174
Unset == [preds |-> <<>>, trend |-> "Sideways", signal |-> "HOLD", reason |-> <<>>,
          path |-> "none"]

FromLinear(linear, prefix) ==
    [preds |-> linear.forecast_next_days, trend |-> linear.trend,
     signal |-> linear.signal, reason |-> prefix \o linear.reason,
     path |-> linear.path]

FromChronos(preds, d) ==
    [preds |-> preds, trend |-> d.trend, signal |-> d.signal,
     reason |-> <<d.reason, ". avg_pred vs last">>, path |-> "chronos"]

\* lines 181-194: c is what _forecast_with_chronos did; an exception, also the
\* IndexError of preds[-1] on an empty list, resets preds
AfterChronos(latest, last_close, c) ==
    IF c.exc # "" \/ Len(c.preds) = 0 THEN Unset
    ELSE FromChronos(c.preds,
             _derive_trend_and_signal(
                 last_close, c.preds[Len(c.preds)],
                 IF "RSI14" \in latest.keys THEN latest.RSI14 ELSE Int2F(DefaultRsi),
                 IF "SMA7" \in latest.keys THEN latest.SMA7 ELSE last_close,
                 IF "SMA30" \in latest.keys THEN latest.SMA30 ELSE last_close))

\* lines 176-194
ChronosStep(latest, last_close, horizon_days, model, available, chronos) ==
    IF TriesChronos(model, available)
    THEN AfterChronos(latest, last_close,
                      _forecast_with_chronos(available, chronos, horizon_days))
    ELSE Unset

\* lines 196-201
FallbackStep(chosen, s1, linear) ==
    IF chosen \in {"chronos", "auto"} /\ Len(s1.preds) = 0
    THEN FromLinear(linear, <<"[Fallback Linear] ">>)
    ELSE s1

\* lines 203-208
LinearStep(chosen, s2, linear) ==
    IF chosen = "linear" \/ Len(s2.preds) = 0 THEN FromLinear(linear, <<>>) ELSE s2

\* A test that never finds the fallback's mark
HasFallback_never(reason) == FALSE

\* line 226: "Fallback" occurs in no reason but behind the fallback's prefix
HasFallback(reason) == \E i \in 1..Len(reason) : reason[i] = "[Fallback Linear] "

\* lines 210-227
BuildResult(close, latest, last_close, horizon_days, chosen, available, s3) ==
    [exc |-> "", path |-> s3.path,
     latest_price |-> Round2(last_close),
     technical_indicators |-> latest,
     trend |-> s3.trend,
     forecast_horizon_days |-> horizon_days,
     forecast_next_days |-> [i \in 1..Len(s3.preds) |-> Round2(s3.preds[i])],
     forecast_bounds |-> _compute_bounds_from_volatility(s3.preds, close),
     signal |-> s3.signal,
     reason |-> s3.reason,
     model_used |-> IF chosen \in {"chronos", "auto"} /\ available
                       /\ ~HasFallback(s3.reason)
                    THEN "chronos" ELSE "linear"]

SelectModel(chosen, s1, linear) ==
    LinearStep(chosen, FallbackStep(chosen, s1, linear), linear)

ForecastOn(df, latest, last_close, horizon_days, model, available, chronos, fit) ==
    BuildResult(df.Close, latest, last_close, horizon_days, Chosen(model), available,
        SelectModel(Chosen(model),
            ChronosStep(latest, last_close, horizon_days, model, available, chronos),
            forecast_price_regression(df, horizon_days, fit)))

AfterLoad(df, horizon_days, model, available, chronos, fit) ==
    ForecastOn(df, get_latest_indicators(df), Price(df.Close[Len(df.Close)]),
               horizon_days, model, available, chronos, fit)

\* get_forecast(symbol, start_date, end_date, horizon_days, model):
\* rows is the content of the symbol's CSV in the date range; available is
\* _CHRONOS_AVAILABLE; chronos and fit are what the two libraries do.
get_forecast(rows, horizon_days, model, available, chronos, fit) ==
    IF get_stock_data(rows).exc # "" THEN [exc |-> get_stock_data(rows).exc]
    ELSE AfterLoad(add_indicators(get_stock_data(rows)), horizon_days, model,
                   available, chronos, fit)

\* The CSV of the symbol after a call of get_forecast: the call only reads it
\* (data_service.get_stock_data); nothing is written back or cached
CsvAfterForecast_appended(rows, record) == Append(rows, rows[Len(rows)] + 60)

CsvAfterForecast(rows, record) == rows

\* The record with "generated_at": get_current_datetime_iso() at time now
Stamped(record, now) == [record |-> record, generated_at |-> now]

----------------------------------------------------------------------------
(* data_service.get_stock_data *)

\* _validate_data_quality on rows [Open, High, Low, Close, Volume]: the
\* error it raises, or "" (rows with a null Date or Close were dropped before)
_validate_data_quality(rows) ==
    IF \E i \in 1..Len(rows) :
          \/ rows[i].Open <= 0 \/ rows[i].High <= 0
          \/ rows[i].Low <= 0 \/ rows[i].Close <= 0
          \/ rows[i].Volume < 0
          \/ rows[i].High < rows[i].Low
          \/ rows[i].High < rows[i].Open
          \/ rows[i].High < rows[i].Close
          \/ rows[i].Low > rows[i].Open
          \/ rows[i].Low > rows[i].Close
    THEN "ValueError" ELSE ""

\* pd.to_datetime(df["Date"], errors="coerce") of an unreadable date
NaT == 0 - 1

\* df.dropna(subset=["Date", "Close"]): the rows with a date
DropNa(rows) == SelectSeq(rows, LAMBDA r : r.Date # NaT)

\* df[(df["Date"] >= start_dt) & (df["Date"] <= end_dt)]
InDateRange(rows, start_dt, end_dt) ==
    SelectSeq(rows, LAMBDA r : r.Date >= start_dt /\ r.Date <= end_dt)

\* The rows of the file that reach the emptiness test of line 67
Selected(rows, start_dt, end_dt) == InDateRange(DropNa(rows), start_dt, end_dt)

\* df.sort_values("Date").reset_index(drop=True): the rows in an order of
\* nondecreasing Date.  The default sort is not stable, so rows of equal
\* date can come out in any order.
sort_values(rows) ==
    {s \in {[i \in 1..Len(rows) |-> rows[p[i]]] : p \in Permutations(1..Len(rows))} :
        \A i \in 1..(Len(s) - 1) : s[i].Date <= s[i + 1].Date}

\* The try block (lines 47-79): file is what pd.read_csv meets, rows are the
\* rows of the file inside the date range, sorted by Date
TryLoad(file, rows) ==
    IF file = "empty" THEN [exc |-> "EmptyDataError"]
    ELSE IF file = "unparsable" THEN [exc |-> "ParserError"]
    ELSE IF Len(rows) = 0 THEN [exc |-> "ValueError"]
    ELSE IF _validate_data_quality(rows) # "" THEN [exc |-> _validate_data_quality(rows)]
    ELSE [exc |-> "", path |-> "", Close |-> [i \in 1..Len(rows) |-> rows[i].Close],
          Date |-> [i \in 1..Len(rows) |-> rows[i].Date]]

\* The except clauses (lines 81-86): EmptyDataError and ParserError become
\* ValueError, every other exception becomes RuntimeError
ExceptLoad(r) ==
    IF r.exc \in {"EmptyDataError", "ParserError"} THEN [exc |-> "ValueError", path |-> ""]
    ELSE IF r.exc # "" THEN [exc |-> "RuntimeError", path |-> ""]
    ELSE r

\* get_stock_data(symbol, start_date, end_date) for a valid date range
LoadStockData(file, rows) ==
    IF file = "missing" THEN [exc |-> "FileNotFoundError", path |-> ""]
    ELSE ExceptLoad(TryLoad(file, rows))

----------------------------------------------------------------------------
(* ai_module.get_ai_confidence_score and get_market_sentiment *)

\* indicators.get(key, default) on technical_indicators
IndicatorGet(indicators, key, default) ==
    IF key \in indicators.keys THEN indicators[key] ELSE default

\* lines 213-216
SmaConsistent(sma7, sma30, trend) ==
    \/ Gt(sma7, sma30) /\ trend = "Uptrend"
    \/ Lt(sma7, sma30) /\ trend = "Downtrend"

\* The score in tenths: 5, + 1 for 30 <= rsi <= 70, + 2 for a consistent SMA
\* ordering, + 1 for BUY or SELL, + 1 for Uptrend or Downtrend
ScoreTenths(rsi, sma7, sma30, trend, signal) ==
    5 + (IF Le(Int2F(RsiOversold), rsi) /\ Le(rsi, Int2F(RsiOverbought)) THEN 1 ELSE 0)
      + (IF SmaConsistent(sma7, sma30, trend) THEN 2 ELSE 0)
      + (IF signal \in {"BUY", "SELL"} THEN 1 ELSE 0)
      + (IF trend \in {"Uptrend", "Downtrend"} THEN 1 ELSE 0)

\* get_ai_confidence_score(result_json): min(1.0, max(0.0, score))
get_ai_confidence_score(result_json) ==
    LET indicators == result_json.technical_indicators
        score == ScoreTenths(IndicatorGet(indicators, "RSI14", Int2F(DefaultRsi)),
                             IndicatorGet(indicators, "SMA7", Int2F(0)),
                             IndicatorGet(indicators, "SMA30", Int2F(0)),
                             result_json.trend, result_json.signal)
    IN  FNum(MinI(10, MaxI(0, score)), 10)

\* lines 250-259
BullishSignals(signal, trend, rsi) ==
    (IF signal = "BUY" THEN 2 ELSE IF signal = "HOLD" /\ trend = "Uptrend" THEN 1 ELSE 0)
    + (IF trend = "Uptrend" THEN 1 ELSE 0)
    + (IF Lt(rsi, Int2F(RsiOverbought)) THEN 1 ELSE 0)

\* A bearish tally that leaves the SELL signal out
BearishSignals_no_sell(signal, trend, rsi) ==
    (IF signal = "HOLD" /\ trend = "Downtrend" THEN 1 ELSE 0)
    + (IF trend = "Downtrend" THEN 1 ELSE 0)
    + (IF Gt(rsi, Int2F(RsiOverbought)) THEN 1 ELSE 0)

\* lines 262-271
BearishSignals(signal, trend, rsi) ==
    (IF signal = "SELL" THEN 2 ELSE IF signal = "HOLD" /\ trend = "Downtrend" THEN 1 ELSE 0)
    + (IF trend = "Downtrend" THEN 1 ELSE 0)
    + (IF Gt(rsi, Int2F(RsiOverbought)) THEN 1 ELSE 0)

\* lines 274-279
Sentiment(bullish_signals, bearish_signals) ==
    IF bullish_signals > bearish_signals THEN "Bullish"
    ELSE IF bearish_signals > bullish_signals THEN "Bearish"
    ELSE "Neutral"

get_market_sentiment(result_json) ==
    LET rsi == IndicatorGet(result_json.technical_indicators, "RSI14", Int2F(DefaultRsi))
    IN  Sentiment(BullishSignals(result_json.signal, result_json.trend, rsi),
                  BearishSignals(result_json.signal, result_json.trend, rsi))

----------------------------------------------------------------------------
(* ai_module.get_ai_advice *)

\* The advice text is the list of its pieces, in order; {symbol} stands for
\* the symbol formatted into a template.  random.choice(list) is the element
\* at the drawn position (1..3).
BuyTemplates ==
    <<"AI nhan dinh {symbol} co tiem nang tang gia ngan han.",
      "Phan tich ky thuat cho thay {symbol} dang trong xu huong tich cuc.",
      "Tin hieu mua xuat hien cho {symbol} voi cac chi bao ho tro.">>

SellTemplates ==
    <<"AI khuyen nghi than trong voi {symbol} trong ngan han.",
      "Phan tich cho thay {symbol} co the dieu chinh giam.",
      "Tin hieu ban xuat hien cho {symbol}, nen xem xet chot loi.">>

HoldTemplates ==
    <<"AI khuyen nghi giu nguyen vi the {symbol} hien tai.",
      "Phan tich cho thay {symbol} dang trong giai doan cho doi.",
      "Tin hieu chua ro rang cho {symbol}, nen quan sat them.">>

RiskWarnings ==
    <<"Luu y: Dau tu co rui ro, can quan ly von hop ly.",
      "Khuyen nghi: Chi dau tu so tien co the chap nhan mat.",
      "Canh bao: Thi truong bien dong, can theo doi sat sao.">>

AdviceRsiMid == 50

When(cond, piece) == IF cond THEN <<piece>> ELSE <<>>

\* base_advice alone when there are no details, else base_advice, the
\* heading and the details
WithDetails(base_advice, heading, details) ==
    IF Len(details) > 0 THEN <<base_advice, heading>> \o details
    ELSE <<base_advice>>

_generate_buy_advice(trend, rsi, sma7, sma30, draw) ==
    WithDetails(BuyTemplates[draw], "Cac yeu to ho tro:",
        When(trend = "Uptrend", "Xu huong tang ro rang")
        \o (IF Lt(rsi, Int2F(AdviceRsiMid)) THEN <<"RSI chua qua mua">>
            ELSE When(Lt(rsi, Int2F(RsiOverbought)), "RSI trong vung an toan"))
        \o When(Gt(sma7, sma30), "SMA ngan han vuot SMA dai han"))

_generate_sell_advice(trend, rsi, sma7, sma30, draw) ==
    WithDetails(SellTemplates[draw], "Ly do:",
        When(trend = "Downtrend", "xu huong giam")
        \o (IF Gt(rsi, Int2F(RsiOverbought)) THEN <<"RSI qua mua">>
            ELSE When(Gt(rsi, Int2F(AdviceRsiMid)), "RSI o vung cao"))
        \o When(Lt(sma7, sma30), "SMA ngan han duoi SMA dai han"))

_generate_hold_advice(trend, rsi, sma7, sma30, draw) ==
    <<HoldTemplates[draw],
      IF trend = "Sideways" THEN "Thi truong dang sideways, cho breakout."
      ELSE IF Gt(rsi, Int2F(RsiOverbought)) THEN "RSI qua mua, cho dieu chinh."
      ELSE IF Lt(rsi, Int2F(RsiOversold)) THEN "RSI qua ban, co the phuc hoi."
      ELSE "Cac chi bao chua cho tin hieu ro rang.">>

_generate_advice_by_signal_as_buy(signal, trend, rsi, sma7, sma30, draw) ==
    IF signal = "SELL" THEN _generate_sell_advice(trend, rsi, sma7, sma30, draw)
    ELSE _generate_buy_advice(trend, rsi, sma7, sma30, draw)

_generate_advice_by_signal(signal, trend, rsi, sma7, sma30, draw) ==
    IF signal = "BUY" THEN _generate_buy_advice(trend, rsi, sma7, sma30, draw)
    ELSE IF signal = "SELL" THEN _generate_sell_advice(trend, rsi, sma7, sma30, draw)
    ELSE _generate_hold_advice(trend, rsi, sma7, sma30, draw)

_add_risk_warning(signal, trend, draw) ==
    <<RiskWarnings[draw],
      IF signal = "BUY" /\ trend = "Uptrend" THEN "Nen dat stop-loss de bao ve von."
      ELSE IF signal = "SELL" THEN "Co the bo lo co hoi neu thi truong dao chieu."
      ELSE "Can kien nhan cho tin hieu ro rang hon.">>

\* get_ai_advice(result_json) under the two random draws it makes
get_ai_advice(result_json, draw1, draw2) ==
    LET indicators == result_json.technical_indicators
    IN  _generate_advice_by_signal(result_json.signal, result_json.trend,
            IndicatorGet(indicators, "RSI14", Int2F(AdviceRsiMid)),
            IndicatorGet(indicators, "SMA7", Int2F(0)),
            IndicatorGet(indicators, "SMA30", Int2F(0)), draw1)
        \o _add_risk_warning(result_json.signal, result_json.trend, draw2)

----------------------------------------------------------------------------
(* logger._get_latest_records_by_symbol *)

\* generated_at values are 'YYYY-MM-DDTHH:MM:SS' strings of one width, which
\* compare as the times they denote: they are numbered in time order, 0 being
\* the '' that record.get('generated_at', '') gives for a missing key.

Newer_or_equal(record, existing) == record.generated_at >= existing.generated_at

\* current_time > existing_time (line 420)
Newer(record, existing) == record.generated_at > existing.generated_at

\* list(symbol_records.values()) after the first k records of the loop: a
\* dict lists its values in the order the keys were first inserted
RECURSIVE SymbolRecords(_, _)
SymbolRecords(records, k) ==
    IF k = 0 THEN <<>>
    ELSE LET prev == SymbolRecords(records, k - 1)
             record == records[k]
         IN  IF record.symbol = "" THEN prev
             ELSE IF \A i \in 1..Len(prev) : prev[i].symbol # record.symbol
             THEN Append(prev, record)
             ELSE [i \in 1..Len(prev) |->
                      IF prev[i].symbol = record.symbol /\ Newer(record, prev[i])
                      THEN record ELSE prev[i]]

_get_latest_records_by_symbol(records) == SymbolRecords(records, Len(records))

\* The indicator set of a record whose latest RSI is rsi: rounded as
\* get_latest_indicators does, the RSI14 key absent when the column is
\* missing or holds None
IndicatorsWith(cols, rsi) ==
    [keys |-> {c \in cols : c # "RSI14" \/ rsi.k # "none"},
     SMA7 |-> Price(100), SMA30 |-> Price(100), RSI14 |-> Round2(rsi)]

\* The record the sentiment is read from (app.py:366): the one get_forecast
\* returned, or the trend, signal and RSI of a signal derivation
ResultJson(c, r) ==
    IF c.op = "get_forecast"
    THEN [trend |-> r.trend, signal |-> r.signal,
          technical_indicators |-> r.technical_indicators]
    ELSE IF c.op = "_generate_trading_signal"
    THEN [trend |-> c.trend, signal |-> r.signal,
          technical_indicators |-> IndicatorsWith(c.cols, c.row.RSI14)]
    ELSE [trend |-> r.trend, signal |-> r.signal,
          technical_indicators |-> IndicatorsWith(IndicatorCols, c.rsi)]

----------------------------------------------------------------------------
(* Inputs *)

\* Price series: flat at a prefix close except for the last TailLen rows,
\* which take any closes of CloseValues (whole cents > 0).  The lengths are
\* those around the guards of the code (10 rows to fit, 15 rows for the RSI),
\* up to MaxLen.
MaxLen == 16
TailLen == 3
Lengths ==
    {0, 1, 2, MinRows - 1, MinRows, RsiPeriod, RsiPeriod + 1, MaxLen}

SeriesOf(n, base, tail) ==
    [i \in 1..n |-> IF i + TailLen <= n THEN base ELSE tail[i + TailLen - n]]

InputSeries ==
    {SeriesOf(n, base, tail) :
        n \in Lengths, base \in PrefixCloses, tail \in [1..TailLen -> CloseValues]}

\* Series that move by 2% at most in their last rows, of the lengths at which
\* forecast_price_regression falls back to _get_simple_prediction
GentleValues == {98, 100, 102}
GentleSeries ==
    {SeriesOf(n, base, tail) :
        n \in {MinRows, RsiPeriod}, base \in PrefixCloses,
        tail \in [1..TailLen -> GentleValues]}

\* Series for add_indicators alone: lengths around the windows (7, 30) and
\* the RSI period
IndicatorLengths ==
    {0, 1, 2, ShortWindow, ShortWindow + 1, RsiPeriod, RsiPeriod + 1,
     LongWindow, LongWindow + 1, LongWindow + 2}

IndicatorSeries ==
    {SeriesOf(n, base, tail) :
        n \in IndicatorLengths, base \in PrefixCloses,
        tail \in [1..TailLen -> CloseValues]}

\* Horizons: the range the UI allows (app.py:95-96), the default, and the
\* values just outside the range
HorizonMin == 1
HorizonMax == 10
DefaultHorizon == 5
Horizons ==
    {HorizonMin - 1, HorizonMin, DefaultHorizon, HorizonMax, HorizonMax + 1}

\* What a fitted LinearRegression predicts (thousandths): level and slope
FitLevels == {0 - 500, 400, 1000, 1600}
FitSlopes == {0 - 100, 4}
Fits == [a : FitLevels, b : FitSlopes]
\* The regression is fitted only on the path after the MinRows guard
FitsFor(close) ==
    IF Len(close) < MinRows THEN {[a |-> 0, b |-> 0]} ELSE Fits

\* What the Chronos model does: raises, or prints horizon - 1, horizon or
\* horizon + 1 numbers, all at one level (cents)
ChronosLevels == {0 - 50, 101, 170}
ChronosOutcomes(horizon) ==
    {[raises |-> TRUE, parts |-> <<>>]}
    \cup {[raises |-> FALSE, parts |-> [i \in 1..m |-> Price(level)]] :
            m \in {k \in {horizon - 1, horizon, horizon + 1} : k >= 0},
            level \in ChronosLevels}

NoChronos == [raises |-> TRUE, parts |-> <<>>]

ModelFlags == {"linear", "Chronos", "auto", "xgboost"}

\* Scalar inputs of the pure functions
CurrentPrices == {Price(c) : c \in CloseValues}
ForecastPrices ==
    {FNum(m, 1000) : m \in {0, 391, 392, 400, 408, 409, 979, 980, 1000, 1020, 1021,
                            1567, 1568, 1600, 1632, 1633, 2000}}
RsiNumbers == {FNum(x, 100) : x \in {0, 2999, 3000, 3001, 5000, 6999, 7000, 7001, 10000}}
RsiInputs == RsiNumbers \cup {NaN, None}
SmaInputs == {Price(c) : c \in {99, 100, 101}}

\* CSV rows: a sound one, and one with each defect _validate_data_quality
\* looks for
SoundRow == [Open |-> 100, High |-> 160, Low |-> 40, Close |-> 100, Volume |-> 0]

CsvRows ==
    {SoundRow,
     [SoundRow EXCEPT !.Close = 160],
     [SoundRow EXCEPT !.Low = 0],
     [SoundRow EXCEPT !.Volume = 0 - 1],
     [SoundRow EXCEPT !.High = 30],
     [SoundRow EXCEPT !.Open = 170],
     [SoundRow EXCEPT !.Close = 170],
     [SoundRow EXCEPT !.Open = 30],
     [SoundRow EXCEPT !.Close = 30]}

\* The rows of a CSV file, each with its Date: a day before the requested
\* range, the first and the last day of the range, a day after it, or no
\* readable date
StartDate == 1
EndDate == 2
CsvDates == {NaT} \cup ((StartDate - 1)..(EndDate + 1))

Dated(r, d) ==
    [Date |-> d, Open |-> r.Open, High |-> r.High, Low |-> r.Low,
     Close |-> r.Close, Volume |-> r.Volume]

DatedRows == {Dated(r, d) : r \in CsvRows, d \in CsvDates}

CsvContents ==
    {<<>>} \cup {<<r>> : r \in DatedRows} \cup {<<r, q>> : r, q \in DatedRows}

CsvFiles == {"missing", "empty", "unparsable", "ok"}

\* Result records as the AI module reads them: trend, signal and the
\* indicator set, with or without its RSI14 key (absent on short series)
ResultRecords ==
    [trend : Trends, signal : Signals,
     technical_indicators :
        [keys : {IndicatorCols, {"SMA7", "SMA30"}, {}},
         RSI14 : RsiInputs \ {None}, SMA7 : SmaInputs, SMA30 : SmaInputs]]

\* Records for get_ai_advice: also a signal that is none of the three, and
\* RSI values around 30, 50 and 70
AdviceRsi ==
    {FNum(x, 100) : x \in {2999, 3000, 4999, 5000, 5001, 6999, 7000, 7001}} \cup {NaN}
AdviceRecords ==
    [trend : Trends, signal : Signals \cup {"WAIT"},
     technical_indicators :
        [keys : {IndicatorCols, {}}, RSI14 : AdviceRsi,
         SMA7 : SmaInputs, SMA30 : {Price(100)}]]

\* Record lists of a day's log: up to MaxRecords records, each with or
\* without a symbol, the k-th one carrying k as its latest_price so that
\* equal-looking records can be told apart
MaxRecords == 3
LogSymbols == {"", "AAA", "BBB"}
LogTimes == 0..2
LogLists ==
    UNION {{[k \in 1..n |-> [symbol |-> f[k].symbol, generated_at |-> f[k].generated_at,
                             latest_price |-> k]] :
               f \in [1..n -> [symbol : LogSymbols, generated_at : LogTimes]]} :
           n \in 0..MaxRecords}

\* Series for _compute_bounds_from_volatility alone: with no, one and two
\* returns, with exactly Lookback returns, and with two more than that
VolatilityLengths == {0, 1, 2, 3, Lookback + 1, Lookback + 3}
VolatilitySeries ==
    {SeriesOf(n, base, tail) :
        n \in VolatilityLengths, base \in PrefixCloses,
        tail \in [1..TailLen -> CloseValues]}

\* Two successive calls of get_forecast with the same arguments.  The fitted
\* regression is a function of the data, and so is what the Chronos model
\* generates from the same prompt: both are fixed for the two calls.
TwiceSeries == {s \in InputSeries : Len(s) \in {1, MinRows, MaxLen}}

TwiceCalls ==
    {c \in [op : {"get_forecast_twice"}, rows : TwiceSeries,
            horizon_days : {DefaultHorizon}, model : {"linear", "Chronos"},
            available : BOOLEAN, fit : {f \in Fits : f.b > 0},
            chronos : ChronosOutcomes(DefaultHorizon) \cup {NoChronos},
            now : {0}] :
        /\ (c.chronos # NoChronos) =>
              (TriesChronos(c.model, c.available) /\ c.available)
        /\ (c.fit.a # 400) =>
              UsesLinear(c.model, c.available, c.chronos, c.horizon_days)}

Calls ==
    [op : {"_determine_trend"}, current_price : CurrentPrices,
     forecast_price : ForecastPrices]
    \cup
    [op : {"_generate_trading_signal"}, trend : Trends, cols : SUBSET IndicatorCols,
     row : [Close : {Price(100)}, SMA7 : SmaInputs, SMA30 : SmaInputs, RSI14 : RsiInputs]]
    \cup
    [op : {"_derive_trend_and_signal"}, current_price : {Price(100)},
     forecast_price : {FNum(m, 1000) : m \in {979, 980, 1000, 1020, 1021}},
     rsi : RsiInputs, sma7 : SmaInputs, sma30 : SmaInputs]
    \cup
    [op : {"forecast_price_regression"}, Close : InputSeries \cup GentleSeries,
     cols : {{}, IndicatorCols}, horizon_days : Horizons]
    \cup
    [op : {"get_forecast"}, rows : InputSeries, horizon_days : Horizons,
     model : ModelFlags, available : BOOLEAN]
    \cup
    [op : {"add_indicators"}, Close : IndicatorSeries]
    \cup
    TwiceCalls
    \cup
    [op : {"get_stock_data"}, file : CsvFiles, rows : CsvContents,
     start_date : {StartDate}, end_date : {EndDate}]
    \cup
    [op : {"get_ai_confidence_score", "get_market_sentiment"},
     result_json : ResultRecords]
    \cup
    [op : {"get_ai_advice"}, result_json : AdviceRecords]
    \cup
    [op : {"_get_latest_records_by_symbol"}, records : LogLists]
    \cup
    [op : {"_compute_bounds_from_volatility"}, close : VolatilitySeries,
     preds : {<<Price(100), Price(0 - 50)>>}]

----------------------------------------------------------------------------
(* logger.append_daily_log: the day's log file and its writers *)

\* The log file of the day: not yet created, holding the JSON of a record
\* list, or holding something json.load cannot read
NoFile == [state |-> "absent", records |-> <<>>]
Unreadable == [state |-> "unreadable", records |-> <<>>]
JsonFile(records) == [state |-> "json", records |-> records]

\* A load that never reads the file back
_load_daily_log_fresh(file) == <<>>

\* _load_daily_log(log_file)['records']: the records of the file, or a new
\* empty list when the file does not exist or cannot be read
_load_daily_log(file) == IF file.state = "json" THEN file.records ELSE <<>>

\* _prepare_log_record(record): the logged keys of the record (the other
\* keys, such as model_used, are not copied)
_prepare_log_record(record) ==
    [symbol |-> record.symbol, generated_at |-> record.generated_at]

\* The callers, the number of calls they make in all, and the records they log
Loggers == {1, 2}
MaxCalls == 3
LogInputs ==
    [symbol : {"AAA", "BBB"}, generated_at : {1}, model_used : {"linear"}]

Idle == [pc |-> "idle", record |-> <<>>, daily_data |-> <<>>]

\* Calls begun so far: those returned and those in progress
Begun == Len(returned) + Cardinality({p \in Loggers : loggers[p].pc # "idle"})

----------------------------------------------------------------------------
(* The specification: an operation is invoked on inputs and returns *)

NoResult == [exc |-> "", path |-> "none"]

LogsInit ==
    /\ log_file = NoFile
    /\ loggers = [p \in Loggers |-> Idle]
    /\ returned = <<>>

Init ==
    /\ call \in Calls
    /\ result = NoResult
    /\ pc = "ready"
    /\ LogsInit

DetermineTrend ==
    /\ pc = "ready"
    /\ call.op = "_determine_trend"
    /\ result' = [exc |-> "", path |-> "",
                  trend |-> _determine_trend(call.current_price, call.forecast_price)]
    /\ pc' = "done"
    /\ UNCHANGED <<call, logs>>

GenerateTradingSignal ==
    /\ pc = "ready"
    /\ call.op = "_generate_trading_signal"
    /\ result' = _generate_trading_signal(call.row, call.cols, call.trend)
    /\ pc' = "done"
    /\ UNCHANGED <<call, logs>>

DeriveTrendAndSignal ==
    /\ pc = "ready"
    /\ call.op = "_derive_trend_and_signal"
    /\ result' = _derive_trend_and_signal(call.current_price, call.forecast_price,
                                          call.rsi, call.sma7, call.sma30)
    /\ pc' = "done"
    /\ UNCHANGED <<call, logs>>

ForecastPriceRegression ==
    /\ pc = "ready"
    /\ call.op = "forecast_price_regression"
    /\ \E fit \in FitsFor(call.Close) :
          result' = forecast_price_regression([Close |-> call.Close, cols |-> call.cols],
                                              call.horizon_days, fit)
    /\ pc' = "done"
    /\ UNCHANGED <<call, logs>>

GetForecast ==
    /\ pc = "ready"
    /\ call.op = "get_forecast"
    /\ \E chronos \in (IF TriesChronos(call.model, call.available) /\ call.available
                        THEN ChronosOutcomes(call.horizon_days) ELSE {NoChronos}) :
       \E fit \in (IF UsesLinear(call.model, call.available, chronos, call.horizon_days)
                    THEN FitsFor(call.rows) ELSE {[a |-> 0, b |-> 0]}) :
          result' = get_forecast(call.rows, call.horizon_days, call.model,
                                 call.available, chronos, fit)
    /\ pc' = "done"
    /\ UNCHANGED <<call, logs>>

AddIndicators ==
    /\ pc = "ready"
    /\ call.op = "add_indicators"
    /\ result' = AddIndicatorsCall(call.Close)
                    @@ IndicatorObjects(<<[Close |-> call.Close, cols |-> {}]>>, 1)
    /\ pc' = "done"
    /\ UNCHANGED <<call, logs>>

GetStockData ==
    /\ pc = "ready"
    /\ call.op = "get_stock_data"
    /\ \E df \in sort_values(Selected(call.rows, call.start_date, call.end_date)) :
          result' = LoadStockData(call.file, df)
    /\ pc' = "done"
    /\ UNCHANGED <<call, logs>>

GetAiConfidenceScore ==
    /\ pc = "ready"
    /\ call.op = "get_ai_confidence_score"
    /\ result' = [exc |-> "", path |-> "",
                  score |-> get_ai_confidence_score(call.result_json)]
    /\ pc' = "done"
    /\ UNCHANGED <<call, logs>>

GetMarketSentiment ==
    /\ pc = "ready"
    /\ call.op = "get_market_sentiment"
    /\ result' = [exc |-> "", path |-> "",
                  sentiment |-> get_market_sentiment(call.result_json)]
    /\ pc' = "done"
    /\ UNCHANGED <<call, logs>>

\* The draws of random.choice are any positions of the three-element lists
GetAiAdvice ==
    /\ pc = "ready"
    /\ call.op = "get_ai_advice"
    /\ \E draw1, draw2 \in 1..3 :
          result' = [exc |-> "", path |-> "",
                     advice |-> get_ai_advice(call.result_json, draw1, draw2)]
    /\ pc' = "done"
    /\ UNCHANGED <<call, logs>>

GetLatestRecordsBySymbol ==
    /\ pc = "ready"
    /\ call.op = "_get_latest_records_by_symbol"
    /\ result' = [exc |-> "", path |-> "",
                  latest |-> _get_latest_records_by_symbol(call.records)]
    /\ pc' = "done"
    /\ UNCHANGED <<call, logs>>

\* result.sigma is the local sigma the bounds were computed with
ComputeBoundsFromVolatility ==
    /\ pc = "ready"
    /\ call.op = "_compute_bounds_from_volatility"
    /\ result' = [exc |-> "", path |-> "", sigma |-> Sigma(call.close),
                  bounds |-> _compute_bounds_from_volatility(call.preds, call.close)]
    /\ pc' = "done"
    /\ UNCHANGED <<call, logs>>

\* The sentiment shown for a record the pipeline produced (app.py:364-366)
ShowSentiment ==
    /\ pc = "done"
    /\ call.op \in {"get_forecast", "_generate_trading_signal", "_derive_trend_and_signal"}
    /\ result.exc = ""
    /\ result' = [exc |-> "", path |-> "shown",
                  result_json |-> ResultJson(call, result),
                  sentiment |-> get_market_sentiment(ResultJson(call, result))]
    /\ pc' = "shown"
    /\ UNCHANGED <<call, logs>>

GetForecastFirst ==
    /\ pc = "ready"
    /\ call.op = "get_forecast_twice"
    /\ LET r == get_forecast(call.rows, call.horizon_days, call.model,
                             call.available, call.chronos, call.fit)
       IN  result' = [exc |-> "", path |-> "",
                      first |-> Stamped(r, call.now),
                      csv |-> CsvAfterForecast(call.rows, r)]
    /\ pc' = "once"
    /\ UNCHANGED <<call, logs>>

\* The second call reads the CSV again, some time later
GetForecastSecond ==
    /\ pc = "once"
    /\ call.op = "get_forecast_twice"
    /\ \E dt \in {0, 1} :
          result' = [exc |-> "", path |-> "",
                     first |-> result.first,
                     csv |-> result.csv,
                     second |-> Stamped(get_forecast(result.csv, call.horizon_days,
                                                     call.model, call.available,
                                                     call.chronos, call.fit),
                                        call.now + dt)]
    /\ pc' = "done"
    /\ UNCHANGED <<call, logs>>

Next ==
    \/ DetermineTrend
    \/ GenerateTradingSignal
    \/ DeriveTrendAndSignal
    \/ ForecastPriceRegression
    \/ GetForecast
    \/ AddIndicators
    \/ GetForecastFirst
    \/ GetForecastSecond
    \/ GetAiConfidenceScore
    \/ GetMarketSentiment
    \/ GetStockData
    \/ GetAiAdvice
    \/ GetLatestRecordsBySymbol
    \/ ComputeBoundsFromVolatility
    \/ ShowSentiment

Spec == Init /\ [][Next]_vars

----------------------------------------------------------------------------
(* The specification of the log writers: append_daily_log in its steps *)

LogInit ==
    /\ call = [op |-> "append_daily_log"]
    /\ result = NoResult
    /\ pc = "ready"
    /\ LogsInit

\* append_daily_log(record) is called (lines 36-41)
CallAppend(p, record) ==
    /\ loggers[p].pc = "idle"
    /\ Begun < MaxCalls
    /\ loggers' = [loggers EXCEPT ![p] = [pc |-> "load", record |-> record,
                                         daily_data |-> <<>>]]
    /\ UNCHANGED <<call, result, pc, log_file, returned>>

\* The same, by a caller that waits for the call before it to return
CallAppendInTurn(p, record) ==
    /\ \A q \in Loggers : loggers[q].pc = "idle"
    /\ CallAppend(p, record)

\* daily_data = _load_daily_log(log_file) (line 44)
LoadDailyLog(p) ==
    /\ loggers[p].pc = "load"
    /\ loggers' = [loggers EXCEPT ![p].pc = "append",
                                  ![p].daily_data = _load_daily_log(log_file)]
    /\ UNCHANGED <<call, result, pc, log_file, returned>>

\* daily_data['records'].append(_prepare_log_record(record)) (lines 47-50)
AppendRecord(p) ==
    /\ loggers[p].pc = "append"
    /\ loggers' = [loggers EXCEPT ![p].pc = "save",
                                  ![p].daily_data =
                                      Append(@, _prepare_log_record(loggers[p].record))]
    /\ UNCHANGED <<call, result, pc, log_file, returned>>

\* _save_daily_log(log_file, daily_data) and the return (lines 53-58)
SaveDailyLog(p) ==
    /\ loggers[p].pc = "save"
    /\ log_file' = JsonFile(loggers[p].daily_data)
    /\ returned' = Append(returned,
                          [exc |-> "", record |-> _prepare_log_record(loggers[p].record),
                           total_records_today |-> Len(loggers[p].daily_data)])
    /\ loggers' = [loggers EXCEPT ![p] = Idle]
    /\ UNCHANGED <<call, result, pc>>

\* _save_daily_log raises IOError (lines 92-96): open(log_file, 'w') failed
\* and the file is as it was, or the write failed after the file was emptied
SaveFails(p) ==
    /\ loggers[p].pc = "save"
    /\ log_file' \in {log_file, Unreadable}
    /\ returned' = Append(returned,
                          [exc |-> "IOError", record |-> _prepare_log_record(loggers[p].record),
                           total_records_today |-> 0])
    /\ loggers' = [loggers EXCEPT ![p] = Idle]
    /\ UNCHANGED <<call, result, pc>>

LogNext ==
    \E p \in Loggers :
        \/ \E record \in LogInputs : CallAppend(p, record)
        \/ LoadDailyLog(p)
        \/ AppendRecord(p)
        \/ SaveDailyLog(p)
        \/ SaveFails(p)

\* Callers that may overlap
LogSpec == LogInit /\ [][LogNext]_vars

LogNextInTurn ==
    \E p \in Loggers :
        \/ \E record \in LogInputs : CallAppendInTurn(p, record)
        \/ LoadDailyLog(p)
        \/ AppendRecord(p)
        \/ SaveDailyLog(p)
        \/ SaveFails(p)

\* Callers one after the other
LogSpecInTurn == LogInit /\ [][LogNextInTurn]_vars

----------------------------------------------------------------------------
(* Properties *)

Done(op) == pc = "done" /\ call.op = op

InRange(h) == h \in HorizonMin..HorizonMax

\* The indicator values _generate_trading_signal reads: a missing column
\* defaults to 50 (RSI) or to the close (SMA)
RsiRead == IF "RSI14" \in call.cols THEN call.row.RSI14 ELSE Int2F(DefaultRsi)
Sma7Read == IF "SMA7" \in call.cols THEN call.row.SMA7 ELSE call.row.Close
Sma30Read == IF "SMA30" \in call.cols THEN call.row.SMA30 ELSE call.row.Close

\* C1: on an Uptrend input with a defined RSI, both signal derivations return
\* BUY exactly when RSI < 70 and SMA7 >= SMA30 (equality included), and HOLD
\* otherwise.
C1_UptrendBuyIffRsiBelow70AndSmaGe ==
    /\ (Done("_generate_trading_signal") /\ call.trend = "Uptrend" /\ IsNum(RsiRead))
        => result.signal =
              IF RsiRead.n < 70 * RsiRead.d
                 /\ Sma7Read.n * Sma30Read.d >= Sma30Read.n * Sma7Read.d
              THEN "BUY" ELSE "HOLD"
    /\ (Done("_derive_trend_and_signal") /\ result.trend = "Uptrend" /\ IsNum(call.rsi))
        => result.signal =
              IF call.rsi.n < 70 * call.rsi.d
                 /\ call.sma7.n * call.sma30.d >= call.sma30.n * call.sma7.d
              THEN "BUY" ELSE "HOLD"

\* C2: on a Downtrend input with a defined RSI, both signal derivations return
\* SELL exactly when RSI > 30 and SMA7 <= SMA30 (equality included), and HOLD
\* otherwise.
C2_DowntrendSellIffRsiAbove30AndSmaLe ==
    /\ (Done("_generate_trading_signal") /\ call.trend = "Downtrend" /\ IsNum(RsiRead))
        => result.signal =
              IF RsiRead.n > 30 * RsiRead.d
                 /\ Sma7Read.n * Sma30Read.d <= Sma30Read.n * Sma7Read.d
              THEN "SELL" ELSE "HOLD"
    /\ (Done("_derive_trend_and_signal") /\ result.trend = "Downtrend" /\ IsNum(call.rsi))
        => result.signal =
              IF call.rsi.n > 30 * call.rsi.d
                 /\ call.sma7.n * call.sma30.d <= call.sma30.n * call.sma7.d
              THEN "SELL" ELSE "HOLD"

\* The Sideways rule on an RSI x: BUY below 30, SELL above 70, else HOLD
\* (a NaN is neither below 30 nor above 70)
SidewaysRule(x) ==
    IF IsNum(x) /\ x.n < 30 * x.d THEN "BUY"
    ELSE IF IsNum(x) /\ x.n > 70 * x.d THEN "SELL"
    ELSE "HOLD"

\* C3: on a Sideways input both signal derivations return BUY exactly when
\* RSI < 30, SELL exactly when RSI > 70 and HOLD otherwise, whatever SMA7 and
\* SMA30 are (every SMA pair of the inputs is covered; in
\* _generate_trading_signal the RSI is a float, NaN included).
C3_SidewaysSignalByRsiOnly ==
    /\ (Done("_generate_trading_signal") /\ call.trend = "Sideways"
            /\ RsiRead.k # "none")
        => result.exc = "" /\ result.signal = SidewaysRule(RsiRead)
    /\ (Done("_derive_trend_and_signal") /\ result.trend = "Sideways")
        => result.signal = SidewaysRule(call.rsi)

\* C3 witness: a Sideways input at the boundary RSI = 30 with SMA7 # SMA30,
\* answered HOLD by _generate_trading_signal.
C3_Witness ==
    /\ Done("_generate_trading_signal")
    /\ call.trend = "Sideways"
    /\ call.cols = IndicatorCols
    /\ call.row.RSI14 = FNum(3000, 100)
    /\ call.row.SMA7 # call.row.SMA30
    /\ result.signal = "HOLD"

\* The relative change |f - c| / c of forecast f against current c > 0 is at
\* most 2%
Within2Pct(c, f) == 100 * Abs(f.n * c.d - c.n * f.d) <= 2 * c.n * f.d

TrendRule(c, f) ==
    IF Within2Pct(c, f) THEN "Sideways"
    ELSE IF f.n * c.d > c.n * f.d THEN "Uptrend"
    ELSE "Downtrend"

\* C4: for a current price > 0 the trend is Sideways iff
\* |forecast - current| / current <= 0.02 (boundary included), else Uptrend
\* when forecast > current, else Downtrend, in _determine_trend and in the
\* first step of _derive_trend_and_signal.
C4_TrendClassification ==
    /\ Done("_determine_trend")
        => result.trend = TrendRule(call.current_price, call.forecast_price)
    /\ Done("_derive_trend_and_signal")
        => result.trend = TrendRule(call.current_price, call.forecast_price)

\* C4 witness: a forecast exactly 2% above the current price is Sideways.
C4_Witness ==
    /\ Done("_determine_trend")
    /\ call.current_price = Price(100)
    /\ call.forecast_price = FNum(1020, 1000)
    /\ result.trend = "Sideways"

NonNegative(prices) == \A i \in 1..Len(prices) : prices[i].n >= 0

\* C5: every price of forecast_next_days is >= 0, for every non-empty valid
\* series and every horizon in [1,10], on every path of
\* forecast_price_regression.
C5_ForecastPricesNonNegative ==
    (Done("forecast_price_regression") /\ Len(call.Close) > 0
        /\ InRange(call.horizon_days))
    => NonNegative(result.forecast_next_days)

\* C6: for every horizon h in [1,10] and every non-empty series,
\* forecast_next_days has exactly h entries, from forecast_price_regression
\* and from get_forecast, on every path.
C6_ForecastLengthIsHorizon ==
    /\ (Done("forecast_price_regression") /\ Len(call.Close) > 0
            /\ InRange(call.horizon_days))
        => Len(result.forecast_next_days) = call.horizon_days
    /\ (Done("get_forecast") /\ Len(call.rows) > 0 /\ InRange(call.horizon_days))
        => Len(result.forecast_next_days) = call.horizon_days

\* C6 witness: get_forecast asked for Chronos with 10 days, Chronos failed,
\* and the fitted regression gave the 10 prices.
C6_Witness ==
    /\ Done("get_forecast")
    /\ Chosen(call.model) = "chronos"
    /\ call.available
    /\ call.horizon_days = HorizonMax
    /\ result.exc = ""
    /\ result.path = "regression"
    /\ HasFallback(result.reason)
    /\ Len(result.forecast_next_days) = HorizonMax

\* C7: a horizon outside [1,10] is reported to the caller as an error: no
\* result record is returned.
C7_HorizonOutOfRangeIsAnError ==
    (pc = "done" /\ call.op \in {"forecast_price_regression", "get_forecast"}
        /\ ~InRange(call.horizon_days))
    => result.exc # ""

\* The try block raises whatever the fitted model is
AlwaysRaises(df, h) == \A fit \in Fits : TryRegression(df, h, fit).exc # ""

\* C8: for a non-empty series and a horizon in [1,10],
\* forecast_price_regression returns a record with trend, signal, reason and
\* forecast_next_days and raises nothing; a series of fewer than 10 rows gets
\* the default projection, and an exception inside the try block is replaced
\* by the result of _get_simple_prediction.
C8_RegressionAlwaysReturnsARecord ==
    (Done("forecast_price_regression") /\ Len(call.Close) > 0
        /\ InRange(call.horizon_days))
    => /\ result.exc = ""
       /\ result.trend \in Trends
       /\ result.signal \in Signals
       /\ Len(result.reason) > 0
       /\ Len(result.forecast_next_days) = call.horizon_days
       /\ Len(call.Close) < MinRows => result.path = "default"
       /\ (Len(call.Close) >= MinRows
            /\ AlwaysRaises([Close |-> call.Close, cols |-> call.cols],
                            call.horizon_days))
          => /\ result.path = "simple"
             /\ result = _get_simple_prediction(
                             [Close |-> call.Close, cols |-> call.cols],
                             call.horizon_days, result.reason[3])

\* C8 witness: the TypeError of the signal derivation (RSI14 is None on 10 to
\* 14 rows) was caught and the fallback record returned.
C8_Witness ==
    /\ Done("forecast_price_regression")
    /\ InRange(call.horizon_days)
    /\ result.exc = ""
    /\ result.path = "simple"
    /\ result.reason[3] = "Loi du doan: TypeError"

\* The row with RSI14 set to 50
WithRsi50(row) == [row EXCEPT !.RSI14 = Int2F(DefaultRsi)]

\* C9: with an undefined latest RSI (None or NaN) the signal derivation gives
\* the signal and reason of the rule table at RSI = 50, and
\* forecast_price_regression keeps the regression result.
C9_UndefinedRsiActsAs50 ==
    /\ (Done("_generate_trading_signal") /\ "RSI14" \in call.cols
            /\ IsNa(call.row.RSI14))
        => result = _generate_trading_signal(WithRsi50(call.row), call.cols, call.trend)
    /\ (Done("_derive_trend_and_signal") /\ IsNa(call.rsi))
        => result = _derive_trend_and_signal(call.current_price, call.forecast_price,
                                             Int2F(DefaultRsi), call.sma7, call.sma30)
    /\ (Done("forecast_price_regression") /\ Len(call.Close) >= MinRows
            /\ InRange(call.horizon_days))
        => result.path = "regression"

\* The average daily return over the trailing closes (at most 5), as a
\* rational, or 0.001 when there are fewer than 2
TrailingReturn(close) ==
    LET n == IF Len(close) < 5 THEN Len(close) ELSE 5
        first == close[Len(close) - n + 1]
        last == close[Len(close)]
    IN  IF n >= 2 THEN FNum(last - first, first * n) ELSE FNum(1, 1000)

\* last_close * (1 + k * d), to the cent
Projected(last_close, d, k) ==
    Round2(FNum(last_close * (d.d + k * d.n), 100 * d.d))

\* C10: on a series too short for the regression (fewer than 10 rows),
\* forecast day k is last_close * (1 + k * d), d the average daily return over
\* the trailing 5 closes when there are at least 2 rows, and 0.001 only when
\* there are fewer than 2.
C10_ShortSeriesProjectsTrailingReturn ==
    (Done("forecast_price_regression") /\ Len(call.Close) > 0
        /\ Len(call.Close) < MinRows /\ InRange(call.horizon_days))
    => \A k \in 1..call.horizon_days :
          NumEq(result.forecast_next_days[k],
                Projected(call.Close[Len(call.Close)], TrailingReturn(call.Close), k))

\* C11: in every record get_forecast returns (horizon in [1,10]),
\* forecast_bounds has one {min, max} entry per forecast day, and
\* 0 <= min <= p <= max for the day's prediction p.
C11_BoundsBracketEveryForecast ==
    (Done("get_forecast") /\ result.exc = "" /\ InRange(call.horizon_days))
    => /\ Len(result.forecast_bounds) = Len(result.forecast_next_days)
       /\ \A i \in 1..Len(result.forecast_next_days) :
            /\ result.forecast_bounds[i].min.n >= 0
            /\ Le(result.forecast_bounds[i].min, result.forecast_next_days[i])
            /\ Le(result.forecast_next_days[i], result.forecast_bounds[i].max)

\* The mean of the last min(i, w) closes up to row i (rows counted from 1)
MeanOfLast(close, w, i) ==
    LET cnt == IF i < w THEN i ELSE w
    IN  FNum(SumRange(close, i - cnt + 1, i), 100 * cnt)

\* C12: for every series of length n >= 1 add_indicators does not raise, and
\* at every row SMA7 is the mean of the last min(i+1, 7) closes and SMA30 the
\* mean of the last min(i+1, 30) closes (i from 0), both defined; on a single
\* row both equal the close.
C12_SmaIsMeanOfTrailingWindow ==
    (Done("add_indicators") /\ Len(call.Close) >= 1)
    => /\ result.exc = ""
       /\ Len(result.SMA7) = Len(call.Close)
       /\ Len(result.SMA30) = Len(call.Close)
       /\ \A i \in 1..Len(call.Close) :
            /\ NumEq(result.SMA7[i], MeanOfLast(call.Close, 7, i))
            /\ NumEq(result.SMA30[i], MeanOfLast(call.Close, 30, i))
       /\ Len(call.Close) = 1
            => /\ result.SMA7[1] = Price(call.Close[1])
               /\ result.SMA30[1] = Price(call.Close[1])

\* C12 witness: 32 rows ending in a fall, so that the 30-row window leaves
\* out rows that would change the mean.
C12_Witness ==
    /\ Done("add_indicators")
    /\ Len(call.Close) = LongWindow + 2
    /\ call.Close[Len(call.Close)] = 40
    /\ result.exc = ""
    /\ ~NumEq(result.SMA30[Len(call.Close)],
              FNum(SumRange(call.Close, 1, Len(call.Close)), 100 * Len(call.Close)))

\* C13: on 1 to 14 rows add_indicators does not raise, the RSI column is
\* undefined (None), get_latest_indicators has no RSI14 key and has SMA7 and
\* SMA30.
C13_ShortSeriesOmitsRsi ==
    (Done("add_indicators") /\ Len(call.Close) >= 1
        /\ Len(call.Close) < RsiPeriod + 1)
    => /\ result.exc = ""
       /\ \A i \in 1..Len(call.Close) : result.RSI14[i] = None
       /\ "RSI14" \notin result.latest.keys
       /\ {"SMA7", "SMA30"} \subseteq result.latest.keys
       /\ IsNum(result.latest.SMA7) /\ IsNum(result.latest.SMA30)

\* C13 witness: 14 rows, one short of the RSI period + 1.
C13_Witness ==
    /\ Done("add_indicators")
    /\ Len(call.Close) = RsiPeriod
    /\ result.exc = ""
    /\ result.latest.keys = {"SMA7", "SMA30"}

\* No close up to row i is below its predecessor: the exponentially weighted
\* average loss at row i is zero
NoLossUpTo(close, i) == \A j \in 2..i : close[j] >= close[j - 1]

\* C14: on at least 15 rows, at every row where the average loss is zero the
\* RSI is exactly 100, whatever the average gain is.
C14_ZeroLossRsiIs100 ==
    (Done("add_indicators") /\ Len(call.Close) >= RsiPeriod + 1)
    => \A i \in 1..Len(call.Close) :
          NoLossUpTo(call.Close, i) => result.RSI14[i] = Int2F(100)

\* C15: every RSI14 value in the indicator set of get_latest_indicators, and
\* in technical_indicators of a get_forecast record, is a number in [0,100].
C15_ReportedRsiWithin0And100 ==
    /\ (Done("add_indicators") /\ result.exc = "" /\ "RSI14" \in result.latest.keys)
        => /\ IsNum(result.latest.RSI14)
           /\ Le(Int2F(0), result.latest.RSI14)
           /\ Le(result.latest.RSI14, Int2F(100))
    /\ (Done("get_forecast") /\ result.exc = ""
            /\ "RSI14" \in result.technical_indicators.keys)
        => /\ IsNum(result.technical_indicators.RSI14)
           /\ Le(Int2F(0), result.technical_indicators.RSI14)
           /\ Le(result.technical_indicators.RSI14, Int2F(100))

\* The record has the trend, signal and forecast that forecast_price_regression
\* gives on the same rows (with their indicators) and horizon
MatchesRegression ==
    \E fit \in FitsFor(call.rows) :
        LET r == forecast_price_regression(
                     add_indicators([Close |-> call.rows, cols |-> {}]),
                     call.horizon_days, fit)
        IN  /\ result.trend = r.trend
            /\ result.signal = r.signal
            /\ result.forecast_next_days = r.forecast_next_days

HasIndicators ==
    /\ call.result_json.technical_indicators.keys = IndicatorCols
    /\ IsNum(call.result_json.technical_indicators.RSI14)

Tenth(b) == IF b THEN 1 ELSE 0

\* C18: get_ai_confidence_score is 0.5 + 0.1 [30 <= RSI <= 70]
\* + 0.2 [SMA7 >= SMA30 with Uptrend, or SMA7 <= SMA30 with Downtrend]
\* + 0.1 [signal is BUY or SELL] + 0.1 [trend is Uptrend or Downtrend],
\* clamped to [0,1].
C18_ConfidenceScoreFormula ==
    (Done("get_ai_confidence_score") /\ HasIndicators)
    => LET ind == call.result_json.technical_indicators
           trend == call.result_json.trend
           tenths ==
              5 + Tenth(30 * ind.RSI14.d <= ind.RSI14.n /\ ind.RSI14.n <= 70 * ind.RSI14.d)
                + 2 * Tenth(\/ (trend = "Uptrend"
                                /\ ind.SMA7.n * ind.SMA30.d >= ind.SMA30.n * ind.SMA7.d)
                            \/ (trend = "Downtrend"
                                /\ ind.SMA7.n * ind.SMA30.d <= ind.SMA30.n * ind.SMA7.d))
                + Tenth(call.result_json.signal \in {"BUY", "SELL"})
                + Tenth(trend \in {"Uptrend", "Downtrend"})
       IN  /\ NumEq(result.score, FNum(IF tenths > 10 THEN 10 ELSE tenths, 10))
           /\ Le(Int2F(0), result.score) /\ Le(result.score, Int2F(1))

\* C19: with an RSI inside the neutral band [30,70] the RSI adds to neither
\* tally, so get_market_sentiment is Bullish when the bullish points of signal
\* and trend are strictly more, Bearish when the bearish points are strictly
\* more, and Neutral exactly when they are equal.
C19_NeutralRsiAddsToNeitherTally ==
    (Done("get_market_sentiment") /\ HasIndicators
        /\ 30 * call.result_json.technical_indicators.RSI14.d
              <= call.result_json.technical_indicators.RSI14.n
        /\ call.result_json.technical_indicators.RSI14.n
              <= 70 * call.result_json.technical_indicators.RSI14.d)
    => LET signal == call.result_json.signal
           trend == call.result_json.trend
           bullish == 2 * Tenth(signal = "BUY") + Tenth(signal = "HOLD" /\ trend = "Uptrend")
                      + Tenth(trend = "Uptrend")
           bearish == 2 * Tenth(signal = "SELL")
                      + Tenth(signal = "HOLD" /\ trend = "Downtrend")
                      + Tenth(trend = "Downtrend")
       IN  result.sentiment = (IF bullish > bearish THEN "Bullish"
                               ELSE IF bearish > bullish THEN "Bearish"
                               ELSE "Neutral")

\* A row fails the quality validation: a non-positive price, a negative
\* volume, High < Low, High < Open or Close, Low > Open or Close
BadRow(r) ==
    \/ r.Open <= 0 \/ r.High <= 0 \/ r.Low <= 0 \/ r.Close <= 0
    \/ r.Volume < 0
    \/ r.High < r.Low \/ r.High < r.Open \/ r.High < r.Close
    \/ r.Low > r.Open \/ r.Low > r.Close

\* C20: get_stock_data raises ValueError when the date range holds no rows
\* or a row fails the quality validation, and FileNotFoundError when the
\* symbol has no CSV; in these cases no DataFrame is returned.
C20_BadDataRaisesValueError ==
    Done("get_stock_data")
    => /\ call.file = "missing"
            => result.exc = "FileNotFoundError" /\ "Close" \notin DOMAIN result
       /\ (call.file = "ok"
            /\ LET rows == Selected(call.rows, call.start_date, call.end_date)
               IN  Len(rows) = 0 \/ \E i \in 1..Len(rows) : BadRow(rows[i]))
            => result.exc = "ValueError" /\ "Close" \notin DOMAIN result

\* The dates of a returned frame increase strictly and lie in the range asked
StrictlyIncreasing(dates) == \A i \in 1..(Len(dates) - 1) : dates[i] < dates[i + 1]

\* C21: every DataFrame returned by get_stock_data is ordered by Date strictly
\* increasing, with no two rows of the same date, and every date lies within
\* [start_date, end_date] inclusive.
C21_FrameDatesStrictlyIncreasingInRange ==
    (Done("get_stock_data") /\ result.exc = "")
    => /\ StrictlyIncreasing(result.Date)
       /\ \A i \in 1..Len(result.Date) :
             call.start_date <= result.Date[i] /\ result.Date[i] <= call.end_date

\* Every call of append_daily_log so far has returned, without an exception
AllReturned == \A p \in Loggers : loggers[p].pc = "idle"
AllSucceeded == \A i \in 1..Len(returned) : returned[i].exc = ""

\* C22: starting from no log file, after k successful sequential calls of
\* append_daily_log the file holds exactly the k records in call order (so
\* each earlier record is unchanged), and the k-th call returned
\* total_records_today = k.
C22_SequentialAppendsKeepEveryRecord ==
    (AllReturned /\ AllSucceeded /\ Len(returned) > 0)
    => /\ log_file = JsonFile([i \in 1..Len(returned) |-> returned[i].record])
       /\ \A i \in 1..Len(returned) : returned[i].total_records_today = i

C22_Witness ==
    /\ AllReturned /\ AllSucceeded
    /\ Len(returned) = MaxCalls
    /\ Len(log_file.records) = MaxCalls
    /\ returned[1].record # returned[2].record

\* C28: when two calls of append_daily_log for the same day interleave (load,
\* append in memory and save being separate steps), both records are in the
\* day's file once both calls have returned, and the larger of the two
\* returned total_records_today is the number of records in the file.
C28_InterleavedAppendsKeepBothRecords ==
    (AllReturned /\ AllSucceeded /\ Len(returned) = 2)
    => /\ Len(log_file.records) = 2
       /\ \A i \in 1..2 : \E j \in 1..2 : log_file.records[j] = returned[i].record
       /\ Len(log_file.records) =
            (IF returned[1].total_records_today > returned[2].total_records_today
             THEN returned[1].total_records_today
             ELSE returned[2].total_records_today)

\* C23: in every result of forecast_price_regression (fitted regression,
\* default projection, exception fallback) the trend is the classification
\* of the last close against the final value of forecast_next_days under the
\* 2% rule: Sideways iff the relative change is at most 2%, else Uptrend or
\* Downtrend by its sign.
C23_TrendMatchesFinalForecast ==
    (Done("forecast_price_regression") /\ result.exc = ""
        /\ Len(call.Close) > 0 /\ Len(result.forecast_next_days) > 0)
    => result.trend =
          TrendRule(Price(call.Close[Len(call.Close)]),
                    result.forecast_next_days[Len(result.forecast_next_days)])

\* The base templates of a signal: every signal but BUY and SELL is a HOLD
TemplatesOf(signal) ==
    IF signal = "BUY" THEN BuyTemplates
    ELSE IF signal = "SELL" THEN SellTemplates
    ELSE HoldTemplates

Elements(seq) == {seq[i] : i \in 1..Len(seq)}

\* The pieces between the base template and the base warning, and the suffix
\* after the warning
Clauses(advice) == SubSeq(advice, 2, Len(advice) - 2)
Suffix(advice) == advice[Len(advice)]

\* What get_ai_advice can return for the record of the call
Advices ==
    {get_ai_advice(call.result_json, draw1, draw2) : draw1, draw2 \in 1..3}

\* C24: get_ai_advice returns a non-empty text: one of the three base
\* templates of the record's signal (any signal but BUY or SELL counting as
\* HOLD), then clauses fixed by (signal, trend, RSI, SMA7, SMA30), then one of
\* the three risk warnings with a suffix fixed by (signal, trend); a record
\* has at most 9 possible texts, and the draws change only the template and
\* the warning.
C24_AdviceIsTemplateClausesWarning ==
    Done("get_ai_advice")
    => /\ result.exc = ""
       /\ Len(result.advice) >= 3
       /\ result.advice[1] \in Elements(TemplatesOf(call.result_json.signal))
       /\ result.advice[Len(result.advice) - 1] \in Elements(RiskWarnings)
       /\ result.advice \in Advices
       /\ Cardinality(Advices) <= 9
       /\ \A other \in Advices :
             /\ Clauses(other) = Clauses(result.advice)
             /\ Suffix(other) = Suffix(result.advice)
       /\ \A r \in AdviceRecords :
             (r.signal = call.result_json.signal /\ r.trend = call.result_json.trend)
             => Suffix(get_ai_advice(r, 1, 1)) = Suffix(result.advice)

\* C24 witness: a signal that is neither BUY, SELL nor HOLD got a HOLD
\* template, drawn third, and the second warning.
C24_Witness ==
    /\ Done("get_ai_advice")
    /\ call.result_json.signal = "WAIT"
    /\ result.advice[1] = HoldTemplates[3]
    /\ result.advice[Len(result.advice) - 1] = RiskWarnings[2]

\* The position in the input of the record that must be returned for a
\* symbol: the first one among those of greatest generated_at
LatestOf(records, symbol) ==
    CHOOSE k \in 1..Len(records) :
        /\ records[k].symbol = symbol
        /\ \A j \in 1..Len(records) :
              records[j].symbol = symbol
              => \/ records[j].generated_at < records[k].generated_at
                 \/ records[j].generated_at = records[k].generated_at /\ k <= j

\* C27: _get_latest_records_by_symbol returns exactly one record for each
\* distinct non-empty symbol of the input and none for records without a
\* symbol; the record of a symbol is the one of greatest generated_at among
\* that symbol's records, the earliest-listed one when they tie.
C27_OneLatestRecordPerSymbol ==
    Done("_get_latest_records_by_symbol")
    => LET records == call.records
           latest == result.latest
           symbols == {records[k].symbol : k \in 1..Len(records)} \ {""}
       IN  /\ Len(latest) = Cardinality(symbols)
           /\ \A i \in 1..Len(latest) : latest[i].symbol \in symbols
           /\ \A symbol \in symbols :
                 \E i \in 1..Len(latest) : latest[i] = records[LatestOf(records, symbol)]

\* C27 witness: three records of one symbol, the last two tied for the
\* greatest generated_at; the second one is returned.
C27_Witness ==
    /\ Done("_get_latest_records_by_symbol")
    /\ Len(call.records) = MaxRecords
    /\ \A k \in 1..MaxRecords : call.records[k].symbol = "AAA"
    /\ call.records[1].generated_at < call.records[2].generated_at
    /\ call.records[2].generated_at = call.records[3].generated_at
    /\ result.latest = <<call.records[2]>>

\* The rows whose returns are the trailing 20 (row j holds the return from
\* row j - 1 to row j), and the sample variance of those returns times
\* m * (m - 1), in units of 1 / RetScale^2
ReturnRows(close) == {j \in 2..Len(close) : j > Len(close) - Lookback}

RECURSIVE SumOver(_, _, _)
SumOver(close, rows, square) ==
    IF rows = {} THEN 0
    ELSE LET j == CHOOSE r \in rows : TRUE
         IN  (IF square THEN AbsRet(close, j) * AbsRet(close, j) ELSE AbsRet(close, j))
             + SumOver(close, rows \ {j}, square)

Spread(close) ==
    Cardinality(ReturnRows(close)) * SumOver(close, ReturnRows(close), TRUE)
    - SumOver(close, ReturnRows(close), FALSE) * SumOver(close, ReturnRows(close), FALSE)

\* C25: sigma is 0.02 whenever the closes give fewer than 2 returns or the
\* standard deviation of the absolute daily returns is zero or undefined;
\* otherwise it is the standard deviation of the trailing 20 absolute daily
\* returns (here to the precision 1 / RetScale); it is always a positive
\* finite number.
C25_SigmaIsTrailingStdOrTwoPercent ==
    Done("_compute_bounds_from_volatility")
    => LET m == Cardinality(ReturnRows(call.close))
           sigma == result.sigma
       IN  /\ IsNum(sigma) /\ sigma.n > 0 /\ sigma.d > 0
           /\ (m < 2 \/ Spread(call.close) = 0)
                => NumEq(sigma, FNum(FallbackSigmaPct, 100))
           /\ (m >= 2 /\ Spread(call.close) > 0)
                => /\ sigma.d = RetScale
                   /\ sigma.n * sigma.n * m * (m - 1) <= Spread(call.close)
                   /\ Spread(call.close) < (sigma.n + 1) * (sigma.n + 1) * m * (m - 1)

\* C25 witness: a series with more than 20 returns that are not all equal
C25_Witness ==
    /\ Done("_compute_bounds_from_volatility")
    /\ Len(call.close) = Lookback + 3
    /\ Spread(call.close) > 0
    /\ result.sigma.d = RetScale

\* C26: add_moving_averages, add_rsi, add_indicators, get_latest_indicators
\* and forecast_price_regression leave the DataFrame passed to them as it
\* was (same rows, same columns, same values) and return new objects.
C26_CallerFrameUnchanged ==
    Done("add_indicators")
    => /\ result.frames[1] = [Close |-> call.Close, cols |-> {}]
       /\ result.exc = ""
            => /\ result.df # 1
               /\ result.frames[result.df] = [Close |-> call.Close, cols |-> IndicatorCols]

\* C26 witness: the indicator columns were assigned to a third object, the
\* copy made by add_rsi of the copy made by add_moving_averages.
C26_Witness ==
    /\ Done("add_indicators")
    /\ result.exc = ""
    /\ Len(result.frames) = 3
    /\ result.frames[2].cols = {"SMA7", "SMA30"}
    /\ result.frames[3].cols = IndicatorCols

\* C29: in every record get_forecast returns for a horizon in [1,10],
\* model_used is 'chronos' only if forecast_next_days, trend and signal came
\* from the Chronos forecast, and 'linear' whenever they came from
\* forecast_price_regression (flag 'linear', unrecognised flag, Chronos
\* unavailable under 'auto', or a Chronos failure followed by the fallback).
C29_ModelUsedNamesTheProducer ==
    (Done("get_forecast") /\ result.exc = "" /\ InRange(call.horizon_days))
    => /\ result.model_used \in {"chronos", "linear"}
       /\ result.model_used = "chronos" <=> result.path = "chronos"

\* C29 witness: Chronos was asked for and installed, its attempt failed, and
\* the record of the regression fallback says 'linear'.
C29_Witness ==
    /\ Done("get_forecast")
    /\ InRange(call.horizon_days)
    /\ call.model = "Chronos"
    /\ call.available
    /\ result.exc = ""
    /\ result.path = "regression"
    /\ result.model_used = "linear"

\* C30: for every (trend, signal, RSI) the pipeline's signal derivation can
\* emit (any path of forecast_price_regression or _derive_trend_and_signal),
\* get_market_sentiment returns Bullish for BUY and Bearish for SELL.
C30_SentimentAgreesWithSignal ==
    pc = "shown"
    => /\ result.result_json.signal = "BUY" => result.sentiment = "Bullish"
       /\ result.result_json.signal = "SELL" => result.sentiment = "Bearish"

\* C30 witness: a SELL in a Sideways trend with an overbought RSI is Bearish
C30_Witness ==
    /\ pc = "shown"
    /\ result.result_json.signal = "SELL"
    /\ result.result_json.trend = "Sideways"
    /\ result.sentiment = "Bearish"

====
